---- MODULE Spec2Model ----
(***************************************************************************)
(* Football League Manager (src/football_league.py).                       *)
(*                                                                         *)
(* The program is a Streamlit script: every user interaction runs main()   *)
(* from the top, so every handler is preceded by initialize_session_state  *)
(* (which calls load_data), and a handler that ends in st.rerun() is       *)
(* followed by one more run of main() that handles no button.              *)
(*                                                                         *)
(* State: st.session_state (teams, matches, league_table, player_stats),   *)
(* the primary file data/league_data.json, and the backup file written by  *)
(* the current script run (backups are never read back by the program).    *)
(***************************************************************************)
EXTENDS Integers, Sequences, FiniteSets, TLC

VARIABLES
    session_state,  \* [teams, matches, league_table, player_stats]
    data_file,      \* data/league_data.json: [status, data]
    backup_file,    \* data/league_backup_<ts>.json written by this run: [status, data]
    rerun           \* TRUE when the handler ended in st.rerun()

vars == <<session_state, data_file, backup_file, rerun>>

------------------------------------------------------------------------------
(* Bounds of the model *)

\* matches kept in the history (and matches played per team) before
\* record_match is no longer offered
MaxMatches == 1

\* most goals of one match (home_score + away_score)
MaxGoals == 1

------------------------------------------------------------------------------
(* Names *)

\* the sentinel of the scorer / assist select boxes
None == "None"

\* The league under check: two of the four default teams, with the first
\* player of each default roster.
TeamNames == {"Team A", "Team B"}

\* text typed in the "Add new player" box: nothing, or the name of a default
\* player (new to a roster it is not in, a duplicate where it is)
NewPlayerInputs == {"", "Player A1"}

\* the match date picked in the date_input
Dates == {"2026-01-01"}

Range(s) == {s[i] : i \in 1..Len(s)}

\* list.remove(x): drop the first occurrence of x
RECURSIVE list_remove(_, _)
list_remove(s, x) ==
    IF s = <<>> THEN <<>>
    ELSE IF Head(s) = x THEN Tail(s)
    ELSE <<Head(s)>> \o list_remove(Tail(s), x)

------------------------------------------------------------------------------
(* Defaults *)

get_default_teams ==
    [t \in TeamNames |->
        IF t = "Team A" THEN <<"Player A1">> ELSE <<"Player B1">>]

ZeroRow ==
    [matches_played |-> 0, points |-> 0, goals_scored |-> 0,
     wins |-> 0, losses |-> 0, draws |-> 0]

get_default_league_table == [t \in TeamNames |-> ZeroRow]

\* the order in which dict.items() visits the teams
TeamOrder == <<"Team A", "Team B">>

\* every (team, player) pair in the order the nested loops visit them
RosterPairs(teams) ==
    LET RECURSIVE walk(_)
        walk(i) ==
            IF i > Len(TeamOrder) THEN <<>>
            ELSE [j \in 1..Len(teams[TeamOrder[i]]) |->
                     [team |-> TeamOrder[i], player |-> teams[TeamOrder[i]][j]]]
                 \o walk(i + 1)
    IN walk(1)

\* player_stats[player] = value (insert or overwrite)
SetStat(stats, player, value) ==
    [p \in DOMAIN stats \cup {player} |-> IF p = player THEN value ELSE stats[p]]

NewStat(team) == [goals |-> 0, assists |-> 0, team |-> team]

initialize_missing_player_stats(teams, stats) ==
    LET pairs == RosterPairs(teams)
        RECURSIVE fill(_, _)
        fill(i, st) ==
            IF i > Len(pairs) THEN st
            ELSE IF pairs[i].player \in DOMAIN st THEN fill(i + 1, st)
            ELSE fill(i + 1, SetStat(st, pairs[i].player, NewStat(pairs[i].team)))
    IN fill(1, stats)

------------------------------------------------------------------------------
(* Persistence *)

\* what json.dump writes for a session state: the four fields and a timestamp
\* key ("last_updated" in the primary file, "backup_created" in a backup).
\* Every key is a string and every leaf an int, a string or a bool, which
\* json.load gives back unchanged.
Snapshot(s, stamp) ==
    [matches |-> s.matches, league_table |-> s.league_table,
     player_stats |-> s.player_stats, teams |-> s.teams, stamp |-> stamp]

EmptyState ==
    [teams |-> get_default_teams, matches |-> <<>>,
     league_table |-> get_default_league_table,
     player_stats |-> initialize_missing_player_stats(get_default_teams, <<>>)]

\* a file that holds nothing json.load can parse
NoData == Snapshot(EmptyState, "none")

MissingFile == [status |-> "missing", data |-> NoData]
CorruptFile == [status |-> "corrupt", data |-> NoData]

\* outcomes of writing a file: written; open() raised, the file is untouched;
\* open() truncated the file and json.dump raised
WriteOutcomes == {"ok", "open_failed", "write_failed"}

\* save_data: the primary file after the call; it returns True iff outcome = "ok"
save_data(s, file, outcome) ==
    IF outcome = "ok" THEN [status |-> "ok", data |-> Snapshot(s, "last_updated")]
    ELSE IF outcome = "open_failed" THEN file
    ELSE CorruptFile

\* load_data: the session state after the call and whether it returned True
load_data(s, file) ==
    IF file.status = "ok"
    THEN [ok |-> TRUE,
          state |-> [teams |-> file.data.teams,
                     matches |-> file.data.matches,
                     league_table |-> file.data.league_table,
                     player_stats |->
                         initialize_missing_player_stats(file.data.teams,
                                                         file.data.player_stats)]]
    ELSE [ok |-> FALSE, state |-> s]

\* backup_data: the backup file after the call; it returns None unless "ok"
backup_data(s, outcome) ==
    IF outcome = "ok" THEN [status |-> "ok", data |-> Snapshot(s, "backup_created")]
    ELSE IF outcome = "open_failed" THEN MissingFile
    ELSE CorruptFile

\* initialize_session_state: what the file holds when load_data returns True;
\* otherwise the defaults for every key st.session_state lacks. A session has
\* either none of the four keys (fresh) or all of them.
initialize_session_state(s, file, fresh) ==
    IF load_data(s, file).ok THEN load_data(s, file).state
    ELSE IF fresh THEN EmptyState
    ELSE s

\* the session state every handler of this script run starts from
ScriptStart == initialize_session_state(session_state, data_file, FALSE)

------------------------------------------------------------------------------
(* League table and player statistics *)

\* update_league_table with the away team's point of a draw left out
update_league_table_draw_home_only(table, home_team, away_team, home_score, away_score) ==
    LET h == table[home_team]
        a == table[away_team]
        h1 == [h EXCEPT !.matches_played = @ + 1, !.goals_scored = @ + home_score]
        a1 == [a EXCEPT !.matches_played = @ + 1, !.goals_scored = @ + away_score]
        h2 == IF home_score > away_score
              THEN [h1 EXCEPT !.points = @ + 3, !.wins = @ + 1]
              ELSE IF away_score > home_score
              THEN [h1 EXCEPT !.losses = @ + 1]
              ELSE [h1 EXCEPT !.points = @ + 1, !.draws = @ + 1]
        a2 == IF home_score > away_score
              THEN [a1 EXCEPT !.losses = @ + 1]
              ELSE IF away_score > home_score
              THEN [a1 EXCEPT !.points = @ + 3, !.wins = @ + 1]
              ELSE [a1 EXCEPT !.draws = @ + 1]
    IN [table EXCEPT ![home_team] = h2, ![away_team] = a2]

\* update_league_table with the home team's loss of an away win left out
update_league_table_no_home_loss(table, home_team, away_team, home_score, away_score) ==
    LET h == table[home_team]
        a == table[away_team]
        h1 == [h EXCEPT !.matches_played = @ + 1, !.goals_scored = @ + home_score]
        a1 == [a EXCEPT !.matches_played = @ + 1, !.goals_scored = @ + away_score]
        h2 == IF home_score > away_score
              THEN [h1 EXCEPT !.points = @ + 3, !.wins = @ + 1]
              ELSE IF away_score > home_score
              THEN h1
              ELSE [h1 EXCEPT !.points = @ + 1, !.draws = @ + 1]
        a2 == IF home_score > away_score
              THEN [a1 EXCEPT !.losses = @ + 1]
              ELSE IF away_score > home_score
              THEN [a1 EXCEPT !.points = @ + 3, !.wins = @ + 1]
              ELSE [a1 EXCEPT !.points = @ + 1, !.draws = @ + 1]
    IN [table EXCEPT ![home_team] = h2, ![away_team] = a2]

update_league_table(table, home_team, away_team, home_score, away_score) ==
    LET h == table[home_team]
        a == table[away_team]
        h1 == [h EXCEPT !.matches_played = @ + 1, !.goals_scored = @ + home_score]
        a1 == [a EXCEPT !.matches_played = @ + 1, !.goals_scored = @ + away_score]
        h2 == IF home_score > away_score
              THEN [h1 EXCEPT !.points = @ + 3, !.wins = @ + 1]
              ELSE IF away_score > home_score
              THEN [h1 EXCEPT !.losses = @ + 1]
              ELSE [h1 EXCEPT !.points = @ + 1, !.draws = @ + 1]
        a2 == IF home_score > away_score
              THEN [a1 EXCEPT !.losses = @ + 1]
              ELSE IF away_score > home_score
              THEN [a1 EXCEPT !.points = @ + 3, !.wins = @ + 1]
              ELSE [a1 EXCEPT !.points = @ + 1, !.draws = @ + 1]
    IN [table EXCEPT ![home_team] = h2, ![away_team] = a2]

\* one loop of update_player_stats over `entries`, incrementing `field`;
\* player_stats[p] raises KeyError for a player with no entry, which ends
\* the loop with the increments made so far
RECURSIVE bump_stats(_, _, _)
bump_stats(acc, entries, field) ==
    IF acc.raised \/ entries = <<>> THEN acc
    ELSE LET p == Head(entries).player IN
         IF p = None THEN bump_stats(acc, Tail(entries), field)
         ELSE IF p \notin DOMAIN acc.stats
         THEN [acc EXCEPT !.raised = TRUE]
         ELSE bump_stats(
                 [acc EXCEPT !.stats[p] =
                     IF field = "goals" THEN [@ EXCEPT !.goals = @ + 1]
                     ELSE [@ EXCEPT !.assists = @ + 1]],
                 Tail(entries), field)

update_player_stats(stats, scorers_data, assists_data) ==
    bump_stats(bump_stats([stats |-> stats, raised |-> FALSE], scorers_data, "goals"),
               assists_data, "assists")

\* the team that scores goal i: the first home_score goals are the home team's
scoring_team(i, home_team, away_team, home_score) ==
    IF i <= home_score THEN home_team ELSE away_team

\* the number of scorer / assist rows the form shows
total_goals(home_score, away_score) == home_score + away_score

\* entries_data with rows for the home team's goals only
entries_data_home_goals_only(sel, home_team, away_team, home_score, away_score) ==
    [i \in 1..home_score |->
        [player |-> sel[i],
         team |-> scoring_team(i, home_team, away_team, home_score)]]

\* scorers_data / assists_data as the form builds them from the selections
entries_data(sel, home_team, away_team, home_score, away_score) ==
    [i \in 1..total_goals(home_score, away_score) |->
        [player |-> sel[i],
         team |-> scoring_team(i, home_team, away_team, home_score)]]

------------------------------------------------------------------------------
(* Handlers of main() *)

\* the options of a scorer / assist select box
Options(teams, team) == {None} \cup Range(teams[team])

\* the selections of the scorer (or assist) select boxes of a match form
Picks(teams, home_team, away_team, home_score, away_score) ==
    {f \in [1..total_goals(home_score, away_score) ->
               UNION {Options(teams, t) : t \in TeamNames}] :
        \A i \in 1..total_goals(home_score, away_score) :
            f[i] \in Options(teams, scoring_team(i, home_team, away_team, home_score))}

Init ==
    /\ session_state = EmptyState
    /\ data_file = MissingFile
    /\ backup_file = MissingFile
    /\ rerun = FALSE

\* the match record the "Complete Match" handler builds
MatchRecord(match_date, home_team, away_team, home_score, away_score, scorer, assist_player) ==
    [date |-> match_date, home_team |-> home_team, away_team |-> away_team,
     home_score |-> home_score, away_score |-> away_score,
     scorers |-> entries_data(scorer, home_team, away_team, home_score, away_score),
     assists |-> entries_data(assist_player, home_team, away_team, home_score, away_score),
     completed |-> TRUE]

\* "Complete Match" up to the save: the session state the handler leaves and
\* whether update_player_stats raised KeyError (nothing after it runs then)
complete_match(s, m) ==
    LET table == update_league_table(s.league_table, m.home_team, m.away_team,
                                     m.home_score, m.away_score)
        ps == update_player_stats(s.player_stats, m.scorers, m.assists)
        s1 == [s EXCEPT !.league_table = table, !.player_stats = ps.stats]
    IN IF ps.raised
       THEN [raised |-> TRUE, state |-> s1]
       ELSE [raised |-> FALSE, state |-> [s1 EXCEPT !.matches = Append(@, m)]]

\* "Complete Match" with the given form inputs and outcome of the save
RecordMatchOf(m, outcome) ==
    /\ ~rerun
    /\ Len(ScriptStart.matches) < MaxMatches
    /\ ScriptStart.league_table[m.home_team].matches_played < MaxMatches
    /\ ScriptStart.league_table[m.away_team].matches_played < MaxMatches
    /\ LET c == complete_match(ScriptStart, m) IN
         /\ session_state' = c.state
         /\ data_file' = IF c.raised THEN data_file
                         ELSE save_data(c.state, data_file, outcome)
         /\ rerun' = ~c.raised
    /\ backup_file' = MissingFile

\* the team and score inputs of the match form: the away-team box leaves
\* out the home team
Fixtures ==
    {x \in [home_team : TeamNames, away_team : TeamNames,
            home_score : 0..MaxGoals, away_score : 0..MaxGoals] :
        /\ x.home_team # x.away_team
        /\ total_goals(x.home_score, x.away_score) <= MaxGoals}

RecordMatch ==
    /\ ~rerun
    /\ Len(ScriptStart.matches) < MaxMatches
    /\ \E match_date \in Dates, x \in Fixtures :
       \E scorer \in Picks(ScriptStart.teams, x.home_team, x.away_team,
                           x.home_score, x.away_score),
          assist_player \in Picks(ScriptStart.teams, x.home_team, x.away_team,
                                  x.home_score, x.away_score) :
       \E outcome \in WriteOutcomes :
           RecordMatchOf(MatchRecord(match_date, x.home_team, x.away_team,
                                     x.home_score, x.away_score, scorer, assist_player),
                         outcome)

\* "Manual Save"
ManualSaveOf(outcome) ==
    /\ ~rerun
    /\ session_state' = ScriptStart
    /\ data_file' = save_data(ScriptStart, data_file, outcome)
    /\ backup_file' = MissingFile
    /\ rerun' = FALSE

ManualSave == \E outcome \in WriteOutcomes : ManualSaveOf(outcome)

\* "Reload Data"
ReloadData ==
    /\ ~rerun
    /\ session_state' = load_data(ScriptStart, data_file).state
    /\ rerun' = load_data(ScriptStart, data_file).ok
    /\ backup_file' = MissingFile
    /\ UNCHANGED data_file

\* "Create Backup"
CreateBackupOf(outcome) ==
    /\ ~rerun
    /\ backup_file' = backup_data(ScriptStart, outcome)
    /\ session_state' = ScriptStart
    /\ rerun' = FALSE
    /\ UNCHANGED data_file

CreateBackup == \E outcome \in WriteOutcomes : CreateBackupOf(outcome)

\* del player_stats[player], when the player has an entry
del_stat(stats, player) == [p \in DOMAIN stats \ {player} |-> stats[p]]

\* the body of the "Remove" button of `player` in the roster of `team_name`
remove_player(s, team_name, player) ==
    [s EXCEPT !.teams[team_name] = list_remove(@, player),
              !.player_stats = del_stat(@, player)]

\* "Remove" of a player shown in the roster of team_name
RemovePlayerOf(team_name, player, outcome) ==
    /\ ~rerun
    /\ player \in Range(ScriptStart.teams[team_name])
    /\ session_state' = remove_player(ScriptStart, team_name, player)
    /\ data_file' = save_data(remove_player(ScriptStart, team_name, player),
                              data_file, outcome)
    /\ backup_file' = MissingFile
    /\ rerun' = TRUE

RemovePlayer ==
    \E team_name \in TeamNames :
    \E player \in Range(ScriptStart.teams[team_name]) :
    \E outcome \in WriteOutcomes :
        RemovePlayerOf(team_name, player, outcome)

\* the test of the "Add Player" handler that lets the player in
may_add(teams, team_name, new_player) == new_player \notin Range(teams[team_name])

\* the body of the "Add Player" handler once the test has passed
add_player(s, team_name, new_player) ==
    [s EXCEPT !.teams[team_name] = Append(@, new_player),
              !.player_stats = SetStat(@, new_player, NewStat(team_name))]

\* "Add Player" with new_player typed in the box of team_name
AddPlayerOf(team_name, new_player, outcome) ==
    /\ ~rerun
    /\ backup_file' = MissingFile
    /\ IF new_player # "" /\ may_add(ScriptStart.teams, team_name, new_player)
       THEN /\ session_state' = add_player(ScriptStart, team_name, new_player)
            /\ data_file' = save_data(add_player(ScriptStart, team_name, new_player),
                                      data_file, outcome)
            /\ rerun' = TRUE
       ELSE \* nothing typed, or "already exists in <team>"
            /\ session_state' = ScriptStart
            /\ data_file' = data_file
            /\ rerun' = FALSE

AddPlayer ==
    \E team_name \in TeamNames, new_player \in NewPlayerInputs :
    \E outcome \in WriteOutcomes :
        AddPlayerOf(team_name, new_player, outcome)

\* the in-memory reset of clear_all_data
reset_state(s) ==
    LET pairs == RosterPairs(s.teams)
        RECURSIVE zero(_, _)
        zero(i, st) ==
            IF i > Len(pairs) THEN st
            ELSE zero(i + 1, SetStat(st, pairs[i].player, NewStat(pairs[i].team)))
    IN [s EXCEPT !.matches = <<>>,
                 !.league_table = get_default_league_table,
                 !.player_stats = zero(1, @)]

\* clear_all_data with the backup taken after the reset
clear_all_data_backup_after_reset(s, file, backup_outcome, save_outcome) ==
    [backup |-> backup_data(reset_state(s), backup_outcome),
     state |-> reset_state(s),
     file |-> save_data(reset_state(s), file, save_outcome)]

\* clear_all_data: the backup file, the session state and the primary file
\* after the call
clear_all_data(s, file, backup_outcome, save_outcome) ==
    [backup |-> backup_data(s, backup_outcome),
     state |-> reset_state(s),
     file |-> save_data(reset_state(s), file, save_outcome)]

\* "Confirm - Clear All Data": a call of clear_all_data, then st.rerun()
ClearAllOf(backup_outcome, save_outcome) ==
    /\ ~rerun
    /\ rerun' = TRUE
    /\ LET c == clear_all_data(ScriptStart, data_file, backup_outcome, save_outcome) IN
         /\ backup_file' = c.backup
         /\ session_state' = c.state
         /\ data_file' = c.file

ClearAll ==
    \E backup_outcome \in WriteOutcomes, save_outcome \in WriteOutcomes :
        ClearAllOf(backup_outcome, save_outcome)

\* a run of main() that handles no button: the run st.rerun() starts, or any
\* other widget interaction
ScriptRun ==
    /\ session_state' = ScriptStart
    /\ backup_file' = MissingFile
    /\ rerun' = FALSE
    /\ UNCHANGED data_file

\* the first run of main() in a new browser session: st.session_state is empty
NewSession ==
    /\ ~rerun
    /\ session_state' = initialize_session_state(session_state, data_file, TRUE)
    /\ backup_file' = MissingFile
    /\ rerun' = FALSE
    /\ UNCHANGED data_file

Next ==
    \/ NewSession
    \/ RecordMatch
    \/ ManualSave
    \/ ReloadData
    \/ CreateBackup
    \/ RemovePlayer
    \/ AddPlayer
    \/ ClearAll
    \/ ScriptRun

Spec == Init /\ [][Next]_vars

\* the league when matches are recorded and cleared and no roster is edited
NextLeague ==
    \/ NewSession
    \/ RecordMatch
    \/ ManualSave
    \/ ReloadData
    \/ CreateBackup
    \/ ClearAll
    \/ ScriptRun

SpecLeague == Init /\ [][NextLeague]_vars

------------------------------------------------------------------------------
(* Properties *)

AllPlayers(teams) == UNION {Range(teams[t]) : t \in TeamNames}

TeamsOf(teams, p) == {t \in TeamNames : p \in Range(teams[t])}

\* the league table that the match history accounts for
RECURSIVE TableOf(_)
TableOf(matches) ==
    IF matches = <<>> THEN get_default_league_table
    ELSE LET m == matches[Len(matches)] IN
         update_league_table(TableOf(SubSeq(matches, 1, Len(matches) - 1)),
                             m.home_team, m.away_team, m.home_score, m.away_score)

\* the number of entries of `entries` that name player p
RECURSIVE Named(_, _)
Named(entries, p) ==
    IF entries = <<>> THEN 0
    ELSE (IF Head(entries).player = p THEN 1 ELSE 0) + Named(Tail(entries), p)

RECURSIVE GoalsIn(_, _)
GoalsIn(matches, p) ==
    IF matches = <<>> THEN 0
    ELSE Named(Head(matches).scorers, p) + GoalsIn(Tail(matches), p)

RECURSIVE AssistsIn(_, _)
AssistsIn(matches, p) ==
    IF matches = <<>> THEN 0
    ELSE Named(Head(matches).assists, p) + AssistsIn(Tail(matches), p)

RECURSIVE SumOver(_, _)
SumOver(S, f) ==
    IF S = {} THEN 0
    ELSE LET x == CHOOSE y \in S : TRUE IN f[x] + SumOver(S \ {x}, f)

SumPoints(table) == SumOver(TeamNames, [t \in TeamNames |-> table[t].points])

Decisive(matches) ==
    Cardinality({i \in 1..Len(matches) : matches[i].home_score # matches[i].away_score})

Drawn(matches) ==
    Cardinality({i \in 1..Len(matches) : matches[i].home_score = matches[i].away_score})

\* C1: recording a match is all-or-nothing: the league table is exactly what
\* the matches of the history account for, and no player holds a goal or an
\* assist that no match of the history attributes to that player.
C1_RecordMatchAtomic ==
    /\ session_state.league_table = TableOf(session_state.matches)
    /\ \A p \in DOMAIN session_state.player_stats :
         /\ session_state.player_stats[p].goals <= GoalsIn(session_state.matches, p)
         /\ session_state.player_stats[p].assists <= AssistsIn(session_state.matches, p)

\* C2: a successful save followed by a load gives back the session state that
\* was saved: same teams, matches, league table and player stats.
C2_SaveLoadRoundTrip ==
    load_data(session_state, save_data(session_state, data_file, "ok")).state
        = session_state

\* C3: adding a player whose name is already in some roster of the league
\* (the same team's or another's) changes neither the rosters nor the player
\* stats.
C3_AddPlayerRejectsDuplicate ==
    [][\A team_name \in TeamNames, new_player \in NewPlayerInputs \ {""},
          outcome \in WriteOutcomes :
         (/\ AddPlayerOf(team_name, new_player, outcome)
          /\ new_player \in AllPlayers(ScriptStart.teams))
         => /\ session_state'.teams = ScriptStart.teams
            /\ session_state'.player_stats = ScriptStart.player_stats]_vars

C6_PlayerInOneTeam ==
    \A p \in AllPlayers(session_state.teams) :
       /\ Cardinality(TeamsOf(session_state.teams, p)) = 1
       /\ p \in DOMAIN session_state.player_stats
            => session_state.player_stats[p].team \in TeamsOf(session_state.teams, p)

\* what clear_all leaves in memory, whatever becomes of the two writes
ClearedInMemory(before, after) ==
    /\ after.matches = <<>>
    /\ after.league_table = get_default_league_table
    /\ after.teams = before.teams
    /\ \A p \in AllPlayers(after.teams) :
         /\ p \in DOMAIN after.player_stats
         /\ after.player_stats[p].goals = 0
         /\ after.player_stats[p].assists = 0

\* a backup file that holds session state s
BackupOf(file, s) ==
    /\ file.status = "ok"
    /\ file.data.matches = s.matches
    /\ file.data.league_table = s.league_table
    /\ file.data.player_stats = s.player_stats
    /\ file.data.teams = s.teams

\* a primary file that holds session state s
PrimaryHolds(file, s) ==
    /\ file.status = "ok"
    /\ file.data = Snapshot(s, "last_updated")

\* C7 as stated: every clear_all leaves a backup of the state before the
\* reset, an empty history, a zeroed table, and the reset state in the
\* primary file.
C7_ClearAllAsStated ==
    [][\A backup_outcome \in WriteOutcomes, save_outcome \in WriteOutcomes :
         ClearAllOf(backup_outcome, save_outcome)
         => /\ BackupOf(backup_file', ScriptStart)
            /\ ClearedInMemory(ScriptStart, session_state')
            /\ PrimaryHolds(data_file', session_state')]_vars

\* C7 as amended: clear_all attempts the backup first, and when that write
\* succeeds the backup holds the state before the reset; a backup that fails
\* leaves no readable backup; the backup never touches the primary file (a
\* save that cannot open it leaves it as it was); the reset is made in memory
\* in every case; and when the save succeeds the primary file holds the reset
\* state.
C7_ClearAllAmended ==
    [][\A backup_outcome \in WriteOutcomes, save_outcome \in WriteOutcomes :
         (/\ session_state'.matches = <<>>
          /\ ClearAllOf(backup_outcome, save_outcome))
         => /\ backup_outcome = "ok" => BackupOf(backup_file', ScriptStart)
            /\ backup_outcome # "ok" => backup_file'.status # "ok"
            /\ ClearedInMemory(ScriptStart, session_state')
            /\ save_outcome = "ok" => PrimaryHolds(data_file', session_state')
            /\ save_outcome = "open_failed" => data_file' = data_file]_vars

\* C7 witness: clear_all has just run on a league with a match in its history:
\* the backup holds that match, the history is empty and the primary file
\* holds the reset state.
C7_Witness ==
    /\ rerun
    /\ backup_file.status = "ok"
    /\ Len(backup_file.data.matches) = 1
    /\ backup_file.data.league_table # get_default_league_table
    /\ session_state.matches = <<>>
    /\ session_state.league_table = get_default_league_table
    /\ PrimaryHolds(data_file, session_state)

SaveFailed == ~PrimaryHolds(data_file, session_state)

\* C9: after a handler whose save failed, what the handler did in memory stays
\* in memory: the script run that st.rerun() starts leaves the session state
\* as the handler left it.
C9_FailedSaveKeepsMemory ==
    [][(rerun /\ SaveFailed) => session_state' = session_state]_vars

\* C10: once a script run has finished, every player of every roster has a
\* player_stats entry.
C10_RosterHasStats ==
    ~rerun => \A p \in AllPlayers(session_state.teams) :
                 p \in DOMAIN session_state.player_stats

====
